---- MODULE Spec2Model ----
(***************************************************************************)
(* scripts/purple.py: one run of purple() estimates a local AQI from the   *)
(* PurpleAir sensors near a point.  The model follows the script top to    *)
(* bottom: get_update_server_list, the sensor-selection loop, the result   *)
(* cache, the per-sensor loop, the outlier step, the aggregation loop and  *)
(* the final write/print.                                                  *)
(*                                                                         *)
(* Numbers.  Concentrations, distances and humidity are integers here and  *)
(* every quotient is kept exact: EPA() is carried in units of 1/10000, a   *)
(* concentration handed to AQI() is a fraction n/d, the breakpoint table   *)
(* is in tenths.  round() is round-half-to-even on the exact value.        *)
(* A sensor's coordinates are represented by its haversine distance to the *)
(* target, which is all the script uses them for.                          *)
(***************************************************************************)
EXTENDS Integers, Sequences, FiniteSets

VARIABLES
    opt,        \* the command-line options of the run
    netDir,     \* the sensor directory www.purpleair.com/json serves
    listCache,  \* sensors_list_cache_file: [readable, mtime, data]
    resCache,   \* results_cache_file: [readable, mtime, value]
    readings,   \* what the server answers for ?show=<id>, once asked
    now,        \* time.time()
    pc,         \* position of the run in purple()
    dirData,    \* local `data` of lines 114-121 (the directory in use)
    sensors,    \* local `sensors`
    xts, xv,    \* locals of the result-cache read (xv = None: unbound)
    k,          \* index of the per-sensor loop, lines 154-179
    data,       \* local `data` of lines 153-204: tuples <<raw, d, humidity>>
    flagged,    \* raw values for which fit_predict answered -1
    t, dt,      \* locals of the aggregation loop (t in 1/10000)
    a,          \* local `a`, the rounded AQI
    printed,    \* what the run printed as its result (None: nothing)
    err,        \* the uncaught exception that ended the run ("": none)
    io,         \* files and URLs the run has touched
    run,        \* number of the current invocation
    prev,       \* [printed, a] of the previous invocation
    pm25, aqi   \* argument and result of a stand-alone AQI() call

vars == <<opt, netDir, listCache, resCache, readings, now, pc, dirData, sensors,
          xts, xv, k, data, flagged, t, dt, a, printed, err, io, run, prev,
          pm25, aqi>>

\* an unbound local, a value not produced
None == 0 - 1

(***************************************************************************)
(* Program constants                                                       *)
(***************************************************************************)
PM_25_UPPER_LIMIT == 500
PM_25_LOWER_LIMIT == 0
Radius == 5
MaxAge == 10
ResultsTtl == 600
SensorsListTtl == 1800
Sentinel == 501

(***************************************************************************)
(* Bounds of the model                                                     *)
(***************************************************************************)
MaxDir == 2          \* longest sensor directory
MaxSensorsOpt == 1   \* largest --max-sensors
Now0 == 5000         \* the clock at the first invocation

\* a time-to-live longer than the clock has run
HugeTtl == 4 * (Now0 + 1)

(***************************************************************************)
(* LRAPA, EPA                                                             *)
(***************************************************************************)
Max(x, y) == IF x >= y THEN x ELSE y

\* 0.5*x - 0.66, in 1/100
LRAPA(x) == 50 * x - 66

\* max(0.534*x - 0.0844*h + 5.604, 0), in 1/10000
EPA(x, h) == Max(5340 * x - 844 * h + 56040, 0)

(***************************************************************************)
(* round(): half to even, of the exact quotient n/d (d > 0)                *)
(***************************************************************************)
Round(n, d) ==
    LET q == n \div d
        r == n % d
    IN  IF 2 * r < d THEN q
        ELSE IF 2 * r > d THEN q + 1
        ELSE IF q % 2 = 0 THEN q ELSE q + 1

(***************************************************************************)
(* AQI().  breakpoints: (Blo, Bhi, Ilo, Ihi), Blo and Bhi in tenths.       *)
(***************************************************************************)
breakpoints ==
    << <<0,    120,  0,   50>>,
       <<121,  354,  51,  100>>,
       <<355,  554,  101, 150>>,
       <<555,  1504, 151, 200>>,
       <<1505, 2504, 201, 300>>,
       <<2505, 3504, 301, 400>>,
       <<3505, 5004, 401, 500>> >>

\* a scan that takes Bhi as exclusive
InRangeExclusive(Cp, bp) == Cp >= bp[1] /\ Cp < bp[2]

\* Cp>=Blo and Cp<=Bhi
InRange(Cp, bp) == Cp >= bp[1] /\ Cp <= bp[2]

\* ((Ihi-Ilo)/(Bhi-Blo))*(Cp-Blo)+Ilo as the fraction num/den
Interpolate(Cp, bp) ==
    [num |-> (bp[4] - bp[3]) * (Cp - bp[1]) + bp[3] * (bp[2] - bp[1]),
     den |-> bp[2] - bp[1]]

RECURSIVE AQIScan(_, _)
AQIScan(Cp, i) ==
    IF i > Len(breakpoints) THEN [num |-> Sentinel, den |-> 1]
    ELSE IF InRange(Cp, breakpoints[i]) THEN Interpolate(Cp, breakpoints[i])
    ELSE AQIScan(Cp, i + 1)

\* AQI(n/d): Cp = round(pm25, 1), then the scan of the table
AQI(n, d) == AQIScan(Round(10 * n, d), 1)

(***************************************************************************)
(* Inputs                                                                  *)
(***************************************************************************)
\* One entry of data['results'].  dist stands for
\* distance(mylat, mylon, radians(lat), radians(lon)).
SensorRecords ==
    { [hasCoords |-> FALSE, locType |-> "outside", hidden |-> "false", dist |-> 1],
      [hasCoords |-> TRUE,  locType |-> "inside",  hidden |-> "false", dist |-> 1],
      [hasCoords |-> TRUE,  locType |-> "outside", hidden |-> "true",  dist |-> 1],
      [hasCoords |-> TRUE,  locType |-> "outside", hidden |-> "false", dist |-> 1],
      [hasCoords |-> TRUE,  locType |-> "outside", hidden |-> "false", dist |-> 4],
      [hasCoords |-> TRUE,  locType |-> "outside", hidden |-> "false", dist |-> Radius] }

Directories == UNION { [1..n -> SensorRecords] : n \in 0..MaxDir }

\* The two channels of one sensor's answer: pm2_5_cf_1 and AGE of results[0]
\* and results[1], humidity of results[0].
\* One channel: a reading at the lower end of the valid range, two inside it,
\* one just below it, one at the (exclusive) upper end, and one that is too old.
Channels ==
    { [raw |-> PM_25_LOWER_LIMIT,     age |-> MaxAge - 1],
      [raw |-> 40,                    age |-> MaxAge - 1],
      [raw |-> 80,                    age |-> 0],
      [raw |-> PM_25_LOWER_LIMIT - 1, age |-> MaxAge - 1],
      [raw |-> PM_25_UPPER_LIMIT,     age |-> MaxAge - 1],
      [raw |-> 40,                    age |-> MaxAge] }

Answers ==
    { [raw0 |-> c0.raw, age0 |-> c0.age, raw1 |-> c1.raw, age1 |-> c1.age,
       humidity |-> 50] : c0 \in Channels, c1 \in Channels }

Options ==
    [verbose : BOOLEAN, dry_run : BOOLEAN, max_sensors : 0..MaxSensorsOpt,
     results_ttl : {ResultsTtl, HugeTtl}, sensors_list_ttl : {SensorsListTtl, HugeTtl}]

NoFile == [readable |-> FALSE, mtime |-> 0, data |-> <<>>, value |-> 0]
ListFile(m, d) == [readable |-> TRUE, mtime |-> m, data |-> d, value |-> 0]
ResFile(m, v) == [readable |-> TRUE, mtime |-> m, data |-> <<>>, value |-> v]

NoAnswers == [i \in {} |-> 0]

Idle ==
    /\ dirData = <<>> /\ sensors = <<>> /\ xts = 0 /\ xv = None /\ k = 0
    /\ data = <<>> /\ flagged = {} /\ t = 0 /\ dt = 0 /\ a = None
    /\ printed = None /\ err = "" /\ io = {}

\* The runs studied: every state of the two cache files and both kinds of
\* time-to-live on directories of at most one entry, and every directory
\* with the default time-to-lives and no cache file.
Studied(o, dir, lc, rc) ==
    \/ Len(dir) <= 1
    \/ /\ o.results_ttl = ResultsTtl /\ o.sensors_list_ttl = SensorsListTtl
       /\ lc = NoFile /\ rc = NoFile

Init ==
    /\ opt \in Options
    /\ netDir \in Directories
    /\ listCache \in {NoFile} \cup
         { ListFile(m, netDir) : m \in {Now0 - SensorsListTtl - 1, Now0 - SensorsListTtl} }
    /\ resCache \in {NoFile} \cup
         { ResFile(m, 42) : m \in {Now0 - ResultsTtl, Now0 - ResultsTtl + 1} }
    /\ Studied(opt, netDir, listCache, resCache)
    /\ readings = NoAnswers
    /\ now = Now0
    /\ pc = "start"
    /\ Idle
    /\ run = 1
    /\ prev = [printed |-> None, a |-> None]
    /\ pm25 = 0 /\ aqi = [num |-> 0, den |-> 1]

Crash(e) == pc' = "crashed" /\ err' = e

(***************************************************************************)
(* get_update_server_list, called at line 114                              *)
(***************************************************************************)
GetList ==
    /\ pc = "start"
    /\ LET ts == now
           \* lines 67-75: the except branch leaves data unbound, xts = 0.0
           lxts == IF listCache.readable THEN listCache.mtime ELSE 0
           stale == ts - lxts > opt.sensors_list_ttl
           opened == IF listCache.readable THEN {"list_read"} ELSE {}
       IN  \E netOk \in (IF stale THEN BOOLEAN ELSE {TRUE}) :
             IF stale /\ ~netOk
             THEN \* requests.get / r.json() raises
                  /\ Crash("RequestError: json")
                  /\ io' = io \cup opened \cup {"list_fetch"}
                  /\ UNCHANGED <<listCache, dirData>>
             ELSE IF stale
             THEN /\ listCache' = ListFile(ts, netDir)
                  /\ dirData' = netDir
                  /\ io' = io \cup opened \cup {"list_fetch", "list_write"}
                  /\ pc' = "select"
                  /\ err' = err
             ELSE IF listCache.readable
             THEN /\ dirData' = listCache.data
                  /\ io' = io \cup opened
                  /\ pc' = "select"
                  /\ UNCHANGED <<listCache, err>>
             ELSE \* return data, with data unbound
                  /\ Crash("UnboundLocalError: data")
                  /\ UNCHANGED <<listCache, dirData, io>>
    /\ UNCHANGED <<opt, netDir, resCache, readings, now, sensors, xts, xv, k,
                   data, flagged, t, dt, a, printed, run, prev, pm25, aqi>>

(***************************************************************************)
(* The sensor-selection loop, lines 119-131                                *)
(***************************************************************************)
\* a selection that takes d<=radius
QualifiesAtRadius(i, radius) ==
    /\ i.hasCoords
    /\ i.locType = "outside"
    /\ i.hidden = "false"
    /\ i.dist <= radius

\* lines 124-126: both coordinates present, 'outside', Hidden == 'false', d<radius
Qualifies(i, radius) ==
    /\ i.hasCoords
    /\ i.locType = "outside"
    /\ i.hidden = "false"
    /\ i.dist < radius

\* the loop from entry n of results on, with `sensors` = acc; i['ID'] is n
RECURSIVE SelectSensors(_, _, _, _, _)
SelectSensors(results, n, acc, radius, max_sensors) ==
    IF n > Len(results) THEN acc
    ELSE IF Qualifies(results[n], radius)
    THEN LET appended == Append(acc, [id |-> n, distance |-> results[n].dist])
         IN  IF Len(appended) = max_sensors THEN appended   \* break
             ELSE SelectSensors(results, n + 1, appended, radius, max_sensors)
    ELSE SelectSensors(results, n + 1, acc, radius, max_sensors)

Select ==
    /\ pc = "select"
    /\ sensors' = SelectSensors(dirData, 1, <<>>, Radius, opt.max_sensors)
    /\ pc' = "cache"
    /\ UNCHANGED <<opt, netDir, listCache, resCache, readings, now, dirData, xts,
                   xv, k, data, flagged, t, dt, a, printed, err, io, run, prev,
                   pm25, aqi>>

(***************************************************************************)
(* The result cache, lines 133-151                                         *)
(***************************************************************************)
\* ts-xts < results_ttl
Fresh(ts, mtime, ttl) == ts - mtime < ttl

ReadCache ==
    /\ pc = "cache"
    /\ LET ts == now
           hit == ~opt.dry_run /\ resCache.readable
           nxts == IF hit THEN resCache.mtime ELSE 0
           nxv == IF hit THEN resCache.value ELSE None
       IN  /\ xts' = nxts
           /\ xv' = nxv
           /\ io' = io \cup (IF hit THEN {"res_read"} ELSE {})
           /\ IF Fresh(ts, nxts, opt.results_ttl)
              THEN IF nxv = None
                   THEN \* print("%.0f" % xv) with xv unbound
                        /\ Crash("UnboundLocalError: xv")
                        /\ UNCHANGED <<printed, k>>
                   ELSE /\ printed' = nxv
                        /\ pc' = "done"       \* exit(0)
                        /\ UNCHANGED <<err, k>>
              ELSE /\ k' = 1
                   /\ pc' = IF sensors = <<>> THEN "outlier" ELSE "fetch"
                   /\ UNCHANGED <<printed, err>>
    /\ UNCHANGED <<opt, netDir, listCache, resCache, readings, now, dirData,
                   sensors, data, flagged, t, dt, a, run, prev, pm25, aqi>>

(***************************************************************************)
(* The per-sensor loop, lines 153-179                                      *)
(***************************************************************************)
\* a validation that takes PM_25_UPPER_LIMIT as inclusive
ValidInclusive(age, raw, d, max_age) ==
    /\ age < max_age
    /\ raw >= PM_25_LOWER_LIMIT
    /\ raw <= PM_25_UPPER_LIMIT
    /\ d >= 0

\* line 176 / line 178
Valid(age, raw, d, max_age) ==
    /\ age < max_age
    /\ raw >= PM_25_LOWER_LIMIT
    /\ raw < PM_25_UPPER_LIMIT
    /\ d >= 0

\* what lines 176-179 append for one sensor
Points(j, d, max_age) ==
    (IF Valid(j.age0, j.raw0, d, max_age)
     THEN << <<j.raw0, d, j.humidity>> >> ELSE <<>>)
    \o
    (IF Valid(j.age1, j.raw1, d, max_age)
     THEN << <<j.raw1, d, j.humidity>> >> ELSE <<>>)

\* one iteration whose request and parsing succeed
Fetch ==
    /\ pc = "fetch"
    /\ LET i == sensors[k]
           sid == i.id
       IN  \E j \in (IF sid \in DOMAIN readings THEN {readings[sid]} ELSE Answers) :
             /\ readings' = [s \in DOMAIN readings \cup {sid} |->
                               IF s = sid THEN j ELSE readings[s]]
             /\ data' = data \o Points(j, Radius - i.distance, MaxAge)
    /\ io' = io \cup {"sensor_fetch"}
    /\ k' = k + 1
    /\ pc' = IF k = Len(sensors) THEN "outlier" ELSE "fetch"
    /\ UNCHANGED <<opt, netDir, listCache, resCache, now, dirData, sensors, xts,
                   xv, flagged, t, dt, a, printed, err, run, prev, pm25, aqi>>

\* one iteration in which requests.get, r.json(), the indexing of j['results']
\* or float() raises: nothing catches it
FetchFail ==
    /\ pc = "fetch"
    /\ sensors[k].id \notin DOMAIN readings
    /\ io' = io \cup {"sensor_fetch"}
    /\ Crash("RequestError: show")
    /\ UNCHANGED <<opt, netDir, listCache, resCache, readings, now, dirData,
                   sensors, xts, xv, k, data, flagged, t, dt, a, printed, run,
                   prev, pm25, aqi>>

(***************************************************************************)
(* The outlier step, lines 181-189                                         *)
(***************************************************************************)
RawOf(points) == { points[n][1] : n \in DOMAIN points }

\* how many points carry the raw value v
Count(points, v) == Cardinality({ n \in DOMAIN points : points[n][1] = v })

\* What IsolationForest(contamination=0.01).fit_predict can answer on the raw
\* values, as the set of values answered -1.  The threshold is the 1st
\* percentile of the scores, which for up to 101 points lies between the
\* lowest and the second lowest score: only a point that scores strictly
\* lowest is flagged.  Points of equal value score equal, so a repeated value
\* is never flagged, and on fewer than three points all scores are equal.
\* No random_state is given: which of the remaining values scores lowest, if
\* any, differs from call to call.  Every unrepeated value, and no value at
\* all, is admitted as the answer; the forest itself is not modelled.
Predictions(points) ==
    IF Len(points) < 3 THEN {{}}
    ELSE {{}} \cup { {v} : v \in { w \in RawOf(points) : Count(points, w) = 1 } }

\* data[mask]
Masked(points, F) ==
    LET Kept(x) == x[1] \notin F
    IN  SelectSeq(points, Kept)

\* lines 185-188
Dropped(points, F, verbose) ==
    LET noutliers == Len(points) - Len(Masked(points, F))
    IN  IF verbose /\ noutliers > 0 THEN Masked(points, F) ELSE points

Outlier ==
    /\ pc = "outlier"
    /\ IF data = <<>>
       THEN \* data[:,0] on an array of shape (0,)
            /\ Crash("IndexError")
            /\ UNCHANGED <<flagged, data>>
       ELSE /\ \E F \in Predictions(data) :
                 /\ flagged' = F
                 /\ data' = Dropped(data, F, opt.verbose)
            /\ pc' = "aggregate"
            /\ err' = err
    /\ UNCHANGED <<opt, netDir, listCache, resCache, readings, now, dirData,
                   sensors, xts, xv, k, t, dt, a, printed, io, run, prev, pm25, aqi>>

(***************************************************************************)
(* The aggregation loop and the conversion, lines 193-204                  *)
(***************************************************************************)
\* dt after the loop
RECURSIVE SumWeights(_, _)
SumWeights(points, n) ==
    IF n > Len(points) THEN 0
    ELSE points[n][2] + SumWeights(points, n + 1)

\* t after the loop, in 1/10000
RECURSIVE SumWeighted(_, _)
SumWeighted(points, n) ==
    IF n > Len(points) THEN 0
    ELSE EPA(points[n][1], points[n][3]) * points[n][2] + SumWeighted(points, n + 1)

Aggregate ==
    /\ pc = "aggregate"
    /\ LET nt == SumWeighted(data, 1)
           ndt == SumWeights(data, 1)
       IN  /\ t' = nt
           /\ dt' = ndt
           /\ IF data = <<>>
              THEN \* 0.0/0.0 on Python floats
                   /\ Crash("ZeroDivisionError")
                   /\ a' = a
              ELSE /\ LET v == IF ndt = 0
                               THEN \* numpy: nan, which no range contains
                                    [num |-> Sentinel, den |-> 1]
                               ELSE AQI(nt, 10000 * ndt)
                      IN  a' = Round(v.num, v.den)
                   /\ pc' = "save"
                   /\ err' = err
    /\ UNCHANGED <<opt, netDir, listCache, resCache, readings, now, dirData,
                   sensors, xts, xv, k, data, flagged, printed, io, run, prev,
                   pm25, aqi>>

(***************************************************************************)
(* Lines 206-212                                                           *)
(***************************************************************************)
Save ==
    /\ pc = "save"
    /\ IF ~opt.dry_run
       THEN /\ resCache' = ResFile(now, a)
            /\ io' = io \cup {"res_write"}
       ELSE UNCHANGED <<resCache, io>>
    /\ printed' = a
    /\ pc' = "done"
    /\ UNCHANGED <<opt, netDir, listCache, readings, now, dirData, sensors, xts,
                   xv, k, data, flagged, t, dt, a, err, run, prev, pm25, aqi>>

(***************************************************************************)
(* The script is run again, with the same options, on the same directory   *)
(* and the same sensor answers, one second later.                          *)
(***************************************************************************)
Rerun ==
    /\ pc = "done"
    /\ run = 1
    /\ run' = run + 1
    /\ prev' = [printed |-> printed, a |-> a]
    /\ now' = now + 1
    /\ pc' = "start"
    /\ dirData' = <<>> /\ sensors' = <<>> /\ xts' = 0 /\ xv' = None /\ k' = 0
    /\ data' = <<>> /\ flagged' = {} /\ t' = 0 /\ dt' = 0 /\ a' = None
    /\ printed' = None /\ err' = "" /\ io' = {}
    /\ UNCHANGED <<opt, netDir, listCache, resCache, readings, pm25, aqi>>

Next ==
    \/ GetList
    \/ Select
    \/ ReadCache
    \/ Fetch
    \/ FetchFail
    \/ Outlier
    \/ Aggregate
    \/ Save

Spec == Init /\ [][Next]_vars

\* two runs in a row
NextRerun ==
    \/ GetList
    \/ Select
    \/ ReadCache
    \/ Fetch
    \/ FetchFail
    \/ Outlier
    \/ Aggregate
    \/ Save
    \/ Rerun

SpecRerun == Init /\ [][NextRerun]_vars

(***************************************************************************)
(* AQI() on its own: one call on a concentration given in hundredths       *)
(***************************************************************************)
MaxPm25 == 50200     \* largest concentration tried, in hundredths

InitAQI ==
    /\ opt = [verbose |-> FALSE, dry_run |-> TRUE, max_sensors |-> 0,
              results_ttl |-> ResultsTtl, sensors_list_ttl |-> SensorsListTtl]
    /\ netDir = <<>>
    /\ listCache = NoFile
    /\ resCache = NoFile
    /\ readings = NoAnswers
    /\ now = Now0
    /\ pc = "call"
    /\ Idle
    /\ run = 1
    /\ prev = [printed |-> None, a |-> None]
    /\ pm25 \in 0..MaxPm25
    /\ aqi = [num |-> None, den |-> 1]

CallAQI ==
    /\ pc = "call"
    /\ aqi' = AQI(pm25, 100)
    /\ pc' = "returned"
    /\ UNCHANGED <<opt, netDir, listCache, resCache, readings, now, dirData,
                   sensors, xts, xv, k, data, flagged, t, dt, a, printed, err,
                   io, run, prev, pm25>>

NextAQI == CallAQI

SpecAQI == InitAQI /\ [][NextAQI]_vars

(***************************************************************************)
(* Properties                                                              *)
(***************************************************************************)
\* the run is past the result-cache read of lines 133-151
PastCache ==
    \/ pc \in {"fetch", "outlier", "aggregate", "save", "done"}
    \/ /\ pc = "crashed"
       /\ err \in {"UnboundLocalError: xv", "RequestError: show", "IndexError",
                   "ZeroDivisionError"}

\* the run left through exit(0) at line 151
CachedExit == pc = "done" /\ a = None

\* C1: once the outlier step is over, no point whose raw value the detector
\* flagged is left in the working set, and t and dt are the sums over the
\* unflagged points only -- with or without --verbose.
C1_FlaggedPointsRemoved ==
    /\ pc \in {"aggregate", "save"} =>
         \A n \in DOMAIN data : data[n][1] \notin flagged
    /\ pc = "save" =>
         /\ t = SumWeighted(Masked(data, flagged), 1)
         /\ dt = SumWeights(Masked(data, flagged), 1)

\* C2: after the selection loop, `sensors` holds at most max_sensors entries
\* (for every max_sensors, 0 included), and they are entries of the directory
\* in their original order.
C2_AtMostMaxSensorsInOrder ==
    pc = "cache" =>
      /\ Len(sensors) <= opt.max_sensors
      /\ \A n \in DOMAIN sensors :
           /\ sensors[n].id \in DOMAIN dirData
           /\ sensors[n].distance = dirData[sensors[n].id].dist
      /\ \A m, n \in DOMAIN sensors : m < n => sensors[m].id < sensors[n].id

\* C3: the run never stands at the outlier step with an empty set of
\* validated points, and never dies there of the empty set.
C3_EmptySetStopsBeforeOutlier ==
    /\ ~(pc = "outlier" /\ data = <<>>)
    /\ err # "IndexError"

\* C4: a run that already holds a valid point is never ended by the failure
\* of another sensor's request.
C4_OneBadSensorTolerated ==
    ~(pc = "crashed" /\ err = "RequestError: show" /\ Len(data) > 0)

\* C5: in a run without --dry-run, past the cache read: if the result cache
\* held a readable value younger than results_ttl the run has printed that
\* value and is over, with no per-sensor request and no write of the result
\* cache; otherwise it goes on to recompute (it does not take the
\* cached-value branch), and once it has printed a computed value, that value
\* is what the result cache holds.
C5_CachedOrRecomputed ==
    (~opt.dry_run /\ PastCache) =>
      IF xv # None /\ Fresh(now, xts, opt.results_ttl)
      THEN /\ CachedExit
           /\ printed = xv
           /\ io \cap {"sensor_fetch", "res_write"} = {}
      ELSE /\ ~CachedExit
           /\ err # "UnboundLocalError: xv"
           /\ pc = "done" =>
                /\ printed = a
                /\ "res_write" \in io
                /\ resCache = ResFile(now, a)

\* C6: a run with --dry-run reads and writes neither cache file.
C6_DryRunTouchesNoCache ==
    opt.dry_run => io \cap {"list_read", "list_write", "res_read", "res_write"} = {}

\* the validation rule as the specification words it
Accepted(age, raw, weight) ==
    /\ age < MaxAge
    /\ raw >= PM_25_LOWER_LIMIT
    /\ raw < PM_25_UPPER_LIMIT
    /\ weight >= 0

\* the points the first n selected sensors must have contributed
RECURSIVE Expected(_)
Expected(n) ==
    IF n = 0 THEN <<>>
    ELSE LET j == readings[sensors[n].id]
             w == Radius - sensors[n].distance
         IN  Expected(n - 1)
             \o (IF Accepted(j.age0, j.raw0, w)
                 THEN << <<j.raw0, w, j.humidity>> >> ELSE <<>>)
             \o (IF Accepted(j.age1, j.raw1, w)
                 THEN << <<j.raw1, w, j.humidity>> >> ELSE <<>>)

\* C7: during and right after the per-sensor loop, the validated set is, sensor
\* by sensor and channel by channel, exactly the channel readings with
\* age < max_age, raw >= lower limit, raw < upper limit and weight >= 0: each
\* channel on its own, at most two points per sensor.
C7_ChannelsValidatedIndependently ==
    (pc = "fetch" \/ (pc = "outlier" /\ sensors # <<>>)) =>
      /\ data = Expected(k - 1)
      /\ Len(data) <= 2 * (k - 1)

\* a sensor whose channel A sits on the exclusive upper limit and whose
\* channel B is valid has contributed channel B alone
C7_Witness ==
    /\ pc = "outlier"
    /\ Len(sensors) = 1
    /\ readings[sensors[1].id].raw0 = PM_25_UPPER_LIMIT
    /\ readings[sensors[1].id].raw1 = PM_25_LOWER_LIMIT
    /\ data = << <<PM_25_LOWER_LIMIT, Radius - sensors[1].distance, 50>> >>

\* the ranges of the table that contain Cp
Containing(Cp) ==
    { i \in DOMAIN breakpoints : breakpoints[i][1] <= Cp /\ Cp <= breakpoints[i][2] }

\* C8: for a concentration whose rounding to one decimal is within 0.0..500.4,
\* exactly one range of the table contains the rounded value, and AQI()
\* returns the interpolation in that range, between its Ilo and Ihi; above
\* 500.4 it returns 501.
C8_AQIPartition ==
    pc = "returned" =>
      LET Cp == Round(10 * pm25, 100)
      IN  IF Cp <= 5004
          THEN /\ Cardinality(Containing(Cp)) = 1
               /\ \A i \in Containing(Cp) :
                    LET Blo == breakpoints[i][1]
                        Bhi == breakpoints[i][2]
                        Ilo == breakpoints[i][3]
                        Ihi == breakpoints[i][4]
                    IN  /\ aqi.den > 0
                        /\ aqi.num * (Bhi - Blo) =
                             ((Ihi - Ilo) * (Cp - Blo) + Ilo * (Bhi - Blo)) * aqi.den
                        /\ Ilo * aqi.den <= aqi.num
                        /\ aqi.num <= Ihi * aqi.den
          ELSE aqi = [num |-> Sentinel, den |-> 1]

\* AQI(12.0) is 50, the upper end of the first range
C8_Witness ==
    /\ pc = "returned"
    /\ pm25 = 1200
    /\ aqi.num = 50 * aqi.den

\* C9: two runs in a row that both compute the estimate, on the same options,
\* directory and sensor answers, print the same AQI.
C9_SameInputsSameAQI ==
    (run = 2 /\ pc = "done" /\ a # None /\ prev.a # None) => a = prev.a

\* C10: every validated point has a strictly positive weight, so after the
\* aggregation loop over at least one point dt is strictly positive and the
\* division t/dt has not failed.
C10_WeightsPositive ==
    /\ \A n \in DOMAIN data : data[n][2] > 0
    /\ (pc \in {"save", "done"} /\ data # <<>>) => dt > 0
    /\ data # <<>> => err # "ZeroDivisionError"

\* two sensors at different distances have been aggregated
C10_Witness ==
    /\ pc = "save"
    /\ Len(sensors) = 2
    /\ sensors[1].distance # sensors[2].distance
    /\ Len(data) = 4
    /\ dt = 2 * (Radius - sensors[1].distance) + 2 * (Radius - sensors[2].distance)

====
